---- MODULE Spec2Model ----
(***************************************************************************)
(* Shamir secret sharing over GF(256): ShamirSS::split / ShamirSS::join    *)
(* and the field engine GFC256 of shamir-algorithm/src/lib.rs.             *)
(*                                                                         *)
(* A polynomial is a sequence of coefficients, p[1] being the constant     *)
(* term (Rust p[0]).  A share map is a function from i32 keys to byte      *)
(* sequences.  One split call is followed step by step (every draw from    *)
(* the random source is a step); join is deterministic and is one step.    *)
(***************************************************************************)
EXTENDS Integers, Sequences, FiniteSets, TLC

VARIABLES
  pc,        \* position of the caller / of the running split
  n, k,      \* arguments of the current split call
  secret,    \* argument of the current split call
  bi,        \* split: byte position being processed (1-based)
  ci,        \* generate: coefficient index of the for loop (0-based, as in the source)
  p,         \* generate: the coefficient vector being built
  polys,     \* the polynomials generate returned, one per processed byte (history)
  values,    \* split: the n rows being filled
  splitRes,  \* what split returned
  parts,     \* argument of the last join call
  origin,    \* where the argument of the last join call came from
  joinRes    \* what join returned

vars == <<pc, n, k, secret, bi, ci, p, polys, values, splitRes, parts, origin, joinRes>>

-----------------------------------------------------------------------------
(* Bounds and input pools *)

\* largest valid share count and threshold tried below the 255 limit
MaxN == 3

Byte == 0..255

\* total-share arguments: small ones, the limit, and two values beyond it
NValues == (0..MaxN) \cup {255, 256, 300}

\* threshold arguments: invalid, small valid ones, and one above every n
KValues == (0..MaxN) \cup {301}

\* secrets handed to split (the empty one is rejected)
SecretPool == { <<>>, <<0>>, <<72>>, <<72, 101>>, <<255, 0>> }

\* bytes the random source is observed to yield
RandBytes == {0, 2, 141}

\* share indices a caller picks from the result of split
IndexPool(nn) == {x \in 1..nn : x <= MaxN \/ x = nn}

\* keys and values of share maps a caller builds by hand
KeyPool == {0, 1, 2, 257}
ValuePool == { <<>>, <<1>>, <<200>>, <<1, 2>>, <<7, 0>> }

-----------------------------------------------------------------------------
(* Field tables: GF(2^8), polynomial x^8+x^4+x^3+x+1, generator 3.         *)
(* EXP[i+1] is generator^i for i in 0..254, LOG[a+1] the logarithm of a.   *)

EXP ==
  <<
      1,   3,   5,  15,  17,  51,  85, 255,  26,  46, 114, 150, 161, 248,  19,  53,
     95, 225,  56,  72, 216, 115, 149, 164, 247,   2,   6,  10,  30,  34, 102, 170,
    229,  52,  92, 228,  55,  89, 235,  38, 106, 190, 217, 112, 144, 171, 230,  49,
     83, 245,   4,  12,  20,  60,  68, 204,  79, 209, 104, 184, 211, 110, 178, 205,
     76, 212, 103, 169, 224,  59,  77, 215,  98, 166, 241,   8,  24,  40, 120, 136,
    131, 158, 185, 208, 107, 189, 220, 127, 129, 152, 179, 206,  73, 219, 118, 154,
    181, 196,  87, 249,  16,  48,  80, 240,  11,  29,  39, 105, 187, 214,  97, 163,
    254,  25,  43, 125, 135, 146, 173, 236,  47, 113, 147, 174, 233,  32,  96, 160,
    251,  22,  58,  78, 210, 109, 183, 194,  93, 231,  50,  86, 250,  21,  63,  65,
    195,  94, 226,  61,  71, 201,  64, 192,  91, 237,  44, 116, 156, 191, 218, 117,
    159, 186, 213, 100, 172, 239,  42, 126, 130, 157, 188, 223, 122, 142, 137, 128,
    155, 182, 193,  88, 232,  35, 101, 175, 234,  37, 111, 177, 200,  67, 197,  84,
    252,  31,  33,  99, 165, 244,   7,   9,  27,  45, 119, 153, 176, 203,  70, 202,
     69, 207,  74, 222, 121, 139, 134, 145, 168, 227,  62,  66, 198,  81, 243,  14,
     18,  54,  90, 238,  41, 123, 141, 140, 143, 138, 133, 148, 167, 242,  13,  23,
     57,  75, 221, 124, 132, 151, 162, 253,  28,  36, 108, 180, 199,  82, 246
  >>

LOG ==
  <<
    255,   0,  25,   1,  50,   2,  26, 198,  75, 199,  27, 104,  51, 238, 223,   3,
    100,   4, 224,  14,  52, 141, 129, 239,  76, 113,   8, 200, 248, 105,  28, 193,
    125, 194,  29, 181, 249, 185,  39, 106,  77, 228, 166, 114, 154, 201,   9, 120,
    101,  47, 138,   5,  33,  15, 225,  36,  18, 240, 130,  69,  53, 147, 218, 142,
    150, 143, 219, 189,  54, 208, 206, 148,  19,  92, 210, 241,  64,  70, 131,  56,
    102, 221, 253,  48, 191,   6, 139,  98, 179,  37, 226, 152,  34, 136, 145,  16,
    126, 110,  72, 195, 163, 182,  30,  66,  58, 107,  40,  84, 250, 133,  61, 186,
     43, 121,  10,  21, 155, 159,  94, 202,  78, 212, 172, 229, 243, 115, 167,  87,
    175,  88, 168,  80, 244, 234, 214, 116,  79, 174, 233, 213, 231, 230, 173, 232,
     44, 215, 117, 122, 235,  22,  11, 245,  89, 203,  95, 176, 156, 169,  81, 160,
    127,  12, 246, 111,  23, 196,  73, 236, 216,  67,  31,  45, 164, 118, 123, 183,
    204, 187,  62,  90, 251,  96, 177, 134,  59,  82, 161, 108, 170,  85,  41, 157,
    151, 178, 135, 144,  97, 190, 220, 252, 188, 149, 207, 205,  55,  63,  91, 209,
     83,  57, 132,  60,  65, 162, 109,  71,  20,  42, 158,  93,  86, 242, 211, 171,
     68,  17, 146, 217,  35,  32,  46, 137, 180, 124, 184,  38, 119, 153, 227, 165,
    103,  74, 237, 222, 197,  49, 254,  24,  13,  99, 140, 128, 192, 247, 112,   7
  >>

-----------------------------------------------------------------------------
(* Field arithmetic *)

RECURSIVE XorBits(_, _, _)
XorBits(a, b, bits) ==
  IF bits = 0 THEN 0
  ELSE (IF (a % 2) = (b % 2) THEN 0 ELSE 1) + 2 * XorBits(a \div 2, b \div 2, bits - 1)

\* a ^ b on u8
Xor8(a, b) == XorBits(a, b, 8)

\* idx as u8
AsU8(x) == x % 256

add(a, b) == Xor8(a, b)

sub(a, b) == Xor8(a, b)

mul(a, b) ==
  IF a = 0 \/ b = 0 THEN 0
  ELSE LET log_sum == LOG[a + 1] + LOG[b + 1]
       IN  EXP[(log_sum % 255) + 1]

\* the value standing for the panic of div
DivPanic == -1

divSwapped(a, b) ==
  IF b = 0 THEN DivPanic
  ELSE IF a = 0 THEN 0
  ELSE LET log_diff == (LOG[b + 1] - LOG[a + 1] + 255) % 255
       IN  EXP[log_diff + 1]
div(a, b) ==
  IF b = 0 THEN DivPanic
  ELSE IF a = 0 THEN 0
  ELSE LET log_diff == (LOG[a + 1] - LOG[b + 1] + 255) % 255
       IN  EXP[log_diff + 1]

-----------------------------------------------------------------------------
(* Polynomial engine *)

\* the fold of eval over p.iter().rev(): idx coefficients are still to be folded
RECURSIVE Horner(_, _, _, _)
Horner(poly, x, idx, result) ==
  IF idx = 0 THEN result
  ELSE Horner(poly, x, idx - 1, add(mul(result, x), poly[idx]))

\* the fold in the wrong direction (p.iter() without rev)
RECURSIVE HornerForward(_, _, _, _)
HornerForward(poly, x, idx, result) ==
  IF idx > Len(poly) THEN result
  ELSE HornerForward(poly, x, idx + 1, add(mul(result, x), poly[idx]))

evalForward(poly, x) == HornerForward(poly, x, 1, 0)
eval(poly, x) == Horner(poly, x, Len(poly), 0)

\* inner loop of interpolate: the Lagrange basis value at 0 of point i
RECURSIVE Basis(_, _, _, _)
Basis(points, i, j, li) ==
  IF j > Len(points) THEN li
  ELSE IF i = j THEN Basis(points, i, j + 1, li)
  ELSE LET num == points[j][1]
           den == sub(points[i][1], points[j][1])
           q   == div(num, den)
       IN  IF q = DivPanic THEN DivPanic
           ELSE Basis(points, i, j + 1, mul(li, q))

\* the inner loop with the numerator taken from point i
RECURSIVE BasisOwnX(_, _, _, _)
BasisOwnX(points, i, j, li) ==
  IF j > Len(points) THEN li
  ELSE IF i = j THEN BasisOwnX(points, i, j + 1, li)
  ELSE LET num == points[i][1]
           den == sub(points[i][1], points[j][1])
           q   == div(num, den)
       IN  IF q = DivPanic THEN DivPanic
           ELSE BasisOwnX(points, i, j + 1, mul(li, q))

\* outer loop of interpolate
RECURSIVE Lagrange(_, _, _)
Lagrange(points, i, y) ==
  IF i > Len(points) THEN y
  ELSE LET li == Basis(points, i, 1, 1)
       IN  IF li = DivPanic THEN DivPanic
           ELSE Lagrange(points, i + 1, add(y, mul(li, points[i][2])))

RECURSIVE LagrangeOwnX(_, _, _)
LagrangeOwnX(points, i, y) ==
  IF i > Len(points) THEN y
  ELSE LET li == BasisOwnX(points, i, 1, 1)
       IN  IF li = DivPanic THEN DivPanic
           ELSE LagrangeOwnX(points, i + 1, add(y, mul(li, points[i][2])))

interpolateOwnX(points) == LagrangeOwnX(points, 1, 0)
interpolate(points) == Lagrange(points, 1, 0)

-----------------------------------------------------------------------------
(* Results *)

ErrThreshold == "Threshold k must be greater than 1"
ErrTotal     == "Total shares n must be greater than or equal to k"
ErrTooMany   == "Total shares n cannot exceed 255"
ErrEmpty     == "Secret cannot be empty"
ErrNoParts   == "No parts provided"
ErrLengths   == "Varying lengths of part values"
PanicDiv     == "Division by zero in GF(256)"

NoResult   == [kind |-> "None", err |-> "", val |-> <<>>]
Ok(v)      == [kind |-> "Ok", err |-> "", val |-> v]
Err(msg)   == [kind |-> "Err", err |-> msg, val |-> <<>>]
Panic(msg) == [kind |-> "Panic", err |-> msg, val |-> <<>>]

-----------------------------------------------------------------------------
(* ShamirSS::split *)

\* the four early returns of split; "" when none is taken
splitCheckLimitFirst(nn, kk, s) ==
  IF nn > 255 THEN ErrTooMany
  ELSE IF kk <= 1 THEN ErrThreshold
  ELSE IF nn < kk THEN ErrTotal
  ELSE IF Len(s) = 0 THEN ErrEmpty
  ELSE ""
splitCheck(nn, kk, s) ==
  IF kk <= 1 THEN ErrThreshold
  ELSE IF nn < kk THEN ErrTotal
  ELSE IF nn > 255 THEN ErrTooMany
  ELSE IF Len(s) = 0 THEN ErrEmpty
  ELSE ""

\* vec![0u8; degree + 1] with p[0] = secret_byte
newPolyZero(degree, secret_byte) == [i \in 1..(degree + 1) |-> 0]
newPoly(degree, secret_byte) ==
  [i \in 1..(degree + 1) |-> IF i = 1 THEN secret_byte ELSE 0]

\* every coefficient vector generate(degree, secret_byte) can return: the
\* constant term is secret_byte, the middle coefficients are any bytes, and the
\* while loop returns only with a nonzero leading coefficient
GenerateSet(degree, secret_byte) ==
  { <<secret_byte>> \o mid \o <<lead>> :
      mid \in [1..(degree - 1) -> Byte], lead \in Byte \ {0} }

\* column i of the rows, filled with the values of poly at x = 1..n
fillColumnShifted(vals, nn, i, poly) ==
  [x \in 1..nn |-> [vals[x] EXCEPT ![i] = eval(poly, AsU8(x - 1))]]
fillColumn(vals, nn, i, poly) ==
  [x \in 1..nn |-> [vals[x] EXCEPT ![i] = eval(poly, AsU8(x))]]

\* the map split returns
partsOf(vals, nn) == [i \in 1..nn |-> vals[i]]

-----------------------------------------------------------------------------
(* ShamirSS::join *)

RECURSIVE SortedKeys(_)
SortedKeys(S) ==
  IF S = {} THEN <<>>
  ELSE LET m == CHOOSE x \in S : \A y \in S : x <= y
       IN  <<m>> \o SortedKeys(S \ {m})

\* the points of byte position i, in the iteration order of the BTreeMap
pointsAt(ps, i) ==
  LET keys == SortedKeys(DOMAIN ps)
  IN  [j \in 1..Len(keys) |-> <<AsU8(keys[j]), ps[keys[j]][i]>>]

\* the length check that lets two lengths pass
joinLooseLengths(ps) ==
  IF DOMAIN ps = {} THEN Err(ErrNoParts)
  ELSE LET lengths == {Len(ps[x]) : x \in DOMAIN ps}
       IN  IF Cardinality(lengths) > 2 THEN Err(ErrLengths)
           ELSE LET secret_len == CHOOSE l \in lengths : \A m \in lengths : l <= m
                    out == [i \in 1..secret_len |-> interpolate(pointsAt(ps, i))]
                IN  IF \E i \in 1..secret_len : out[i] = DivPanic
                    THEN Panic(PanicDiv) ELSE Ok(out)
join(ps) ==
  IF DOMAIN ps = {} THEN Err(ErrNoParts)
  ELSE LET lengths == {Len(ps[x]) : x \in DOMAIN ps}
       IN  IF Cardinality(lengths) # 1 THEN Err(ErrLengths)
           ELSE LET secret_len == CHOOSE l \in lengths : TRUE
                    out == [i \in 1..secret_len |-> interpolate(pointsAt(ps, i))]
                IN  IF \E i \in 1..secret_len : out[i] = DivPanic
                    THEN Panic(PanicDiv) ELSE Ok(out)

-----------------------------------------------------------------------------
(* The state machine *)

Init ==
  /\ pc = "idle"
  /\ n = 0 /\ k = 0 /\ secret = <<>>
  /\ bi = 0 /\ ci = 0 /\ p = <<>> /\ polys = <<>> /\ values = <<>>
  /\ splitRes = NoResult
  /\ parts = <<>> /\ origin = "none" /\ joinRes = NoResult

\* split is called: the early returns, or the set-up of the first generate
SplitCall ==
  /\ pc = "idle"
  /\ \E nn \in NValues, kk \in KValues, s \in SecretPool :
       /\ n' = nn /\ k' = kk /\ secret' = s
       /\ polys' = <<>>
       /\ parts' = <<>> /\ origin' = "none" /\ joinRes' = NoResult
       /\ IF splitCheck(nn, kk, s) # ""
          THEN /\ pc' = "split_err"
               /\ splitRes' = Err(splitCheck(nn, kk, s))
               /\ bi' = 0 /\ ci' = 0 /\ p' = <<>> /\ values' = <<>>
          ELSE /\ pc' = "gen"
               /\ splitRes' = NoResult
               /\ values' = [x \in 1..nn |-> [i \in 1..Len(s) |-> 0]]
               /\ bi' = 1 /\ ci' = 1
               /\ p' = newPoly(kk - 1, s[1])

\* generate, for loop: p[i] = rng.sample(..) for i in 1..=degree
GenDraw ==
  /\ pc = "gen"
  /\ \E r \in RandBytes : p' = [p EXCEPT ![ci + 1] = r]
  /\ IF ci = k - 1 THEN pc' = "while" /\ ci' = ci
                   ELSE pc' = "gen" /\ ci' = ci + 1
  /\ UNCHANGED <<n, k, secret, bi, polys, values, splitRes, parts, origin, joinRes>>

\* generate, while loop body: the leading coefficient is zero and is drawn again
WhileResample ==
  /\ pc = "while"
  /\ p[k] = 0
  /\ \E r \in RandBytes : p' = [p EXCEPT ![k] = r]
  /\ UNCHANGED <<pc, n, k, secret, bi, ci, polys, values, splitRes, parts, origin, joinRes>>

\* generate, while loop exit: p is returned
WhileExit ==
  /\ pc = "while"
  /\ p[k] # 0
  /\ pc' = "ret"
  /\ polys' = Append(polys, p)
  /\ UNCHANGED <<n, k, secret, bi, ci, p, values, splitRes, parts, origin, joinRes>>

\* split: the column of the current byte is filled; then the next byte's
\* generate starts, or the map is built and returned
EvalColumn ==
  /\ pc = "ret"
  /\ values' = fillColumn(values, n, bi, p)
  /\ IF bi < Len(secret)
     THEN /\ pc' = "gen"
          /\ bi' = bi + 1 /\ ci' = 1
          /\ p' = newPoly(k - 1, secret[bi + 1])
          /\ splitRes' = NoResult
     ELSE /\ pc' = "split_ok"
          /\ bi' = bi /\ ci' = ci /\ p' = p
          /\ splitRes' = Ok(partsOf(values', n))
  /\ UNCHANGED <<n, k, secret, polys, parts, origin, joinRes>>

\* join is called on some of the shares split returned, under their indices
JoinSubset ==
  /\ pc = "split_ok"
  /\ \E X \in SUBSET IndexPool(n) :
       /\ parts' = [x \in X |-> splitRes.val[x]]
       /\ joinRes' = join(parts')
  /\ origin' = "subset"
  /\ pc' = "join_done"
  /\ UNCHANGED <<n, k, secret, bi, ci, p, polys, values, splitRes>>

\* the demonstration entry point: shares 1, 2, 3 inserted under keys 0, 1, 2
JoinRekeyed ==
  /\ pc = "split_ok"
  /\ n >= 3
  /\ parts' = [x \in 0..2 |-> splitRes.val[x + 1]]
  /\ joinRes' = join(parts')
  /\ origin' = "rekeyed"
  /\ pc' = "join_done"
  /\ UNCHANGED <<n, k, secret, bi, ci, p, polys, values, splitRes>>

\* join is called on a map the caller built
JoinParts ==
  /\ pc = "idle"
  /\ \E X \in SUBSET KeyPool : \E ps \in [X -> ValuePool] :
       /\ parts' = ps
       /\ joinRes' = join(ps)
  /\ origin' = "parts"
  /\ pc' = "join_done"
  /\ UNCHANGED <<n, k, secret, bi, ci, p, polys, values, splitRes>>

\* the caller drops the results
Return ==
  /\ pc \in {"split_err", "split_ok", "join_done"}
  /\ pc' = "idle"
  /\ n' = 0 /\ k' = 0 /\ secret' = <<>>
  /\ bi' = 0 /\ ci' = 0 /\ p' = <<>> /\ polys' = <<>> /\ values' = <<>>
  /\ splitRes' = NoResult
  /\ parts' = <<>> /\ origin' = "none" /\ joinRes' = NoResult

Next ==
  \/ SplitCall
  \/ GenDraw
  \/ WhileResample
  \/ WhileExit
  \/ EvalColumn
  \/ JoinSubset
  \/ JoinRekeyed
  \/ JoinParts
  \/ Return

Spec == Init /\ [][Next]_vars

\* the random source is fair: a loop that keeps drawing eventually draws a
\* nonzero byte, and a loop whose test passes is left
ResampleNonzero == WhileResample /\ p'[k] # 0

FairSpec == Spec /\ WF_vars(WhileExit) /\ WF_vars(ResampleNonzero)

-----------------------------------------------------------------------------
(* Properties *)

RECURSIVE Pow(_, _)
Pow(x, e) == IF e = 0 THEN 1 ELSE mul(x, Pow(x, e - 1))

\* the value of the polynomial at x as the sum of its monomials
RECURSIVE MonomialSum(_, _, _)
MonomialSum(poly, x, j) ==
  IF j > Len(poly) THEN 0
  ELSE Xor8(mul(poly[j], Pow(x, j - 1)), MonomialSum(poly, x, j + 1))

PolyAt(poly, x) == MonomialSum(poly, x, 1)

JoinedShares == pc = "join_done" /\ origin = "subset"

\* C1: round trip. Whatever coefficients split drew, join of exactly k of the
\* shares split(n,k,S) returned, under their original indices, returns Ok(S).
C1_RoundTrip ==
  (JoinedShares /\ Cardinality(DOMAIN parts) = k) => joinRes = Ok(secret)

C1_Witness ==
  /\ JoinedShares /\ Cardinality(DOMAIN parts) = k
  /\ k = 3 /\ n = 255 /\ DOMAIN parts = {2, 3, 255}
  /\ Len(secret) = 2
  /\ joinRes = Ok(secret)

\* C2: fewer than k shares reveal nothing. For every set X of fewer than k share
\* indices and every byte position, the bytes split produced at X can be
\* produced by split for every other value of the secret byte as well.
C2_Secrecy ==
  pc = "split_ok" =>
    \A X \in SUBSET IndexPool(n) :
      Cardinality(X) < k =>
        \A i \in 1..Len(secret) : \A b \in Byte :
          \E poly \in GenerateSet(k - 1, b) :
            \A x \in X : eval(poly, AsU8(x)) = splitRes.val[x][i]

\* the early return the specification prescribes: the first violated of
\* k <= 1, n < k, n > 255, empty secret
ExpectedSplitErr(nn, kk, s) ==
  CASE kk <= 1   -> ErrThreshold
    [] kk > 1 /\ nn < kk -> ErrTotal
    [] kk > 1 /\ nn >= kk /\ nn > 255 -> ErrTooMany
    [] kk > 1 /\ nn >= kk /\ nn <= 255 /\ s = <<>> -> ErrEmpty
    [] OTHER -> ""

\* C3: split validates before any polynomial is generated or evaluated, the
\* first violated condition in the order k <= 1, n < k, n > 255, empty secret
\* decides the error, and an input violating none is never rejected and
\* returns Ok.
C3_SplitValidation ==
  /\ pc = "split_err" =>
       /\ ExpectedSplitErr(n, k, secret) # ""
       /\ splitRes = Err(ExpectedSplitErr(n, k, secret))
       /\ polys = <<>> /\ p = <<>> /\ values = <<>>
  /\ pc \in {"gen", "while", "ret", "split_ok"} =>
       ExpectedSplitErr(n, k, secret) = ""
  /\ pc = "split_ok" => splitRes.kind = "Ok"

C3_Witness ==
  /\ pc = "split_err"
  /\ n = 300 /\ k = 301 /\ secret = <<>>
  /\ splitRes = Err(ErrTotal)

\* C4: join returns the no-parts error for the empty map and the
\* varying-lengths error for every nonempty map with two values of different
\* length, whatever the keys are (no interpolation is attempted).
C4_JoinValidation ==
  pc = "join_done" =>
    /\ DOMAIN parts = {} => joinRes = Err(ErrNoParts)
    /\ (\E x, y \in DOMAIN parts : Len(parts[x]) # Len(parts[y])) =>
         joinRes = Err(ErrLengths)

C4_Witness ==
  /\ pc = "join_done"
  /\ DOMAIN parts = {1, 257}
  /\ Len(parts[1]) = 1 /\ Len(parts[257]) = 2
  /\ joinRes = Err(ErrLengths)

\* C5: for a valid input split returns a map with the keys 1..n exactly, every
\* value as long as the secret, and byte i of share x is the value at x of the
\* polynomial generated for byte i, whose constant term is secret[i].
C5_SplitShape ==
  pc = "split_ok" =>
    /\ splitRes.kind = "Ok"
    /\ DOMAIN splitRes.val = 1..n
    /\ 0 \notin DOMAIN splitRes.val
    /\ Len(polys) = Len(secret)
    /\ \A x \in 1..n :
         /\ Len(splitRes.val[x]) = Len(secret)
         /\ \A i \in 1..Len(secret) :
              /\ polys[i][1] = secret[i]
              /\ splitRes.val[x][i] = PolyAt(polys[i], x)

C5_Witness ==
  /\ pc = "split_ok"
  /\ n = 255 /\ k = 3 /\ Len(secret) = 2
  /\ DOMAIN splitRes.val = 1..255
  /\ splitRes.val[255][2] = PolyAt(polys[2], 255)
  /\ splitRes.val[255] # secret

\* C6: join of any m of the shares of split(n,k,S), k <= m <= n, under their
\* original indices, returns Ok(S).
C6_AtOrAboveThreshold ==
  (JoinedShares /\ Cardinality(DOMAIN parts) >= k) => joinRes = Ok(secret)

C6_Witness ==
  /\ JoinedShares
  /\ k = 2 /\ n = 255 /\ Cardinality(DOMAIN parts) = 4
  /\ Len(secret) = 2
  /\ joinRes = Ok(secret)

\* C7: join of a nonempty map with values of one length and pairwise distinct
\* nonzero 32-bit keys never divides by zero: it returns Ok.
C7_NoDivisionByZero ==
  ( /\ pc = "join_done"
    /\ DOMAIN parts # {}
    /\ 0 \notin DOMAIN parts
    /\ \A x, y \in DOMAIN parts : Len(parts[x]) = Len(parts[y]) )
  => joinRes.kind = "Ok"

\* the bytes join returns for byte value b when split drew poly and the shares
\* at X are joined
JoinedByte(poly, X) ==
  LET keys == SortedKeys(X)
  IN  interpolate([j \in 1..Len(keys) |-> <<AsU8(keys[j]), eval(poly, AsU8(keys[j]))>>])

\* C8: join of a nonempty set of fewer than k shares returns Ok with a
\* sequence as long as S, and for each byte both outcomes are possible: some
\* coefficients split can draw make the byte equal that of S, others make it
\* differ.
C8_BelowThreshold ==
  ( /\ JoinedShares
    /\ DOMAIN parts # {}
    /\ Cardinality(DOMAIN parts) < k )
  => /\ joinRes.kind = "Ok"
     /\ Len(joinRes.val) = Len(secret)
     /\ \A i \in 1..Len(secret) :
          /\ \E poly \in GenerateSet(k - 1, secret[i]) :
               JoinedByte(poly, DOMAIN parts) # secret[i]
          /\ \E poly \in GenerateSet(k - 1, secret[i]) :
               JoinedByte(poly, DOMAIN parts) = secret[i]

C9_Returned ==
  /\ pc = "ret" =>
       /\ Len(p) = (k - 1) + 1
       /\ p[1] = secret[bi]
       /\ p[(k - 1) + 1] # 0
       /\ PolyAt(p, 0) = secret[bi]
       /\ eval(p, 0) = secret[bi]
       /\ polys[bi] = p
  /\ (pc = "while" /\ p[k] # 0) => (ENABLED WhileExit /\ ~ENABLED WhileResample)
  /\ (pc = "while" /\ p[k] = 0) => ~ENABLED WhileExit

\* C9: generate(degree, b) returns degree+1 coefficients, the first b and the
\* last nonzero, so the polynomial's value at 0 is b; the resampling loop is
\* left as soon as the leading coefficient is nonzero, and with a fair random
\* source it is always left.
C9_Generate ==
  /\ []C9_Returned
  /\ (pc = "while") ~> (pc = "ret")

C9_Witness ==
  /\ pc = "ret"
  /\ k = 3 /\ bi = 2
  /\ p[1] = secret[2] /\ p[2] = 0 /\ p[3] # 0
  /\ eval(p, 0) = secret[2]

\* C10: join does not reject index 0. For a map with values of one length
\* whose keys lie in 0..255 and include 0, join returns Ok with exactly the
\* sequence stored under key 0.
C10_ZeroKey ==
  ( /\ pc = "join_done"
    /\ 0 \in DOMAIN parts
    /\ DOMAIN parts \subseteq 0..255
    /\ \A x, y \in DOMAIN parts : Len(parts[x]) = Len(parts[y]) )
  => joinRes = Ok(parts[0])

C10_Witness ==
  /\ pc = "join_done" /\ origin = "rekeyed"
  /\ DOMAIN parts = {0, 1, 2}
  /\ joinRes = Ok(parts[0])
  /\ joinRes.val = splitRes.val[1]
  /\ joinRes.val # secret

====
